---- MODULE Spec2Model ----
(***************************************************************************)
(* Model of readjson.go of smartctl_exporter: the process-wide JSON cache  *)
(* (jsonCache), the per-device collection readSMARTctl, the orchestrator   *)
(* refreshAllDevices with its WaitGroup, the reader readData and the pure  *)
(* admission functions parseJSON, resultCodeIsOk and jsonIsOk.             *)
(*                                                                         *)
(* Texts (the tool's standard output, a fixture file) are sequences of     *)
(* tokens.  An optional value is a sequence of length 0 or 1.              *)
(***************************************************************************)
EXTENDS Integers, Sequences, FiniteSets, TLC

VARIABLES
    now,               \* the wall clock, time.Now()
    smartctlInterval,  \* the flag *smartctlInterval
    smartctlFakeData,  \* the flag *smartctlFakeData
    jsonCache,         \* the sync.Map: key -> the entry, if any
    calls,             \* the calls of refreshAllDevices, one per caller
    tasks,             \* the goroutines readSMARTctl
    readRet,           \* what readData returned, when the last step was a readData
    input,             \* the arguments of a pure function under test
    output             \* its result, once applied

vars == <<now, smartctlInterval, smartctlFakeData, jsonCache, calls, tasks, readRet, input, output>>

(***************************************************************************)
(* Bounds of the model.                                                    *)
(***************************************************************************)
\* The clock runs from StartTime to MaxTime.
MaxTime == 3
\* The flag smartctl.interval ranges over 0..MaxInterval.
MaxInterval == 1
\* Message lists of the tool's output hold at most MaxMsgs messages.
MaxMsgs == 2
\* The tool's exit status is a byte, 0..MaxCode; the int64 codes given to
\* resultCodeIsOk alone range over -MaxNegCode..MaxCode.
MaxCode == 255
MaxNegCode == 4

\* The zero time.Time, and the wall clock when the process starts.
ZeroTime == 0
StartTime == ZeroTime + 1

Devices == {"sda", "sdb"}
\* The goroutines that call refreshAllDevices.
Callers == {"A", "B"}
\* The caller whose calls of refreshAllDevices follow one another.
Scheduler == "A"
\* The device lists passed to refreshAllDevices: a device may be listed twice.
DeviceLists == {<<>>, <<"sda">>, <<"sdb">>, <<"sda", "sdb">>, <<"sda", "sda">>}
\* The goroutine of the i-th device of caller c's list runs in slot <<c, i>>.
Slots == Callers \X {1, 2}

\* The key init() stores besides the devices.
EmptyKey == ""
Keys == Devices \cup {EmptyKey}

(***************************************************************************)
(* gjson.Result                                                            *)
(***************************************************************************)
\* gjson.Result{}: the zero value, Exists() is false.
ZeroResult == [type |-> "null", exit_status |-> <<>>, messages |-> <<>>, local_time |-> <<>>]
\* gjson.Parse("{}"): an object without members.
EmptyObject == [type |-> "object", exit_status |-> <<>>, messages |-> <<>>, local_time |-> <<>>]

\* An object with smartctl.exit_status, optionally smartctl.messages (the
\* list of the messages' severities) and the time the tool read the device.
Object(code, msgs, t) ==
    [type |-> "object", exit_status |-> <<code>>, messages |-> msgs, local_time |-> <<t>>]

\* json.Get("smartctl.exit_status").Int(): 0 when the member is missing.
ExitStatus(json) == IF json.exit_status = <<>> THEN 0 ELSE json.exit_status[1]

\* A document without any member: "{}" or the zero Result.
IsEmptyDocument(json) ==
    json.exit_status = <<>> /\ json.messages = <<>> /\ json.local_time = <<>>

(***************************************************************************)
(* Texts                                                                   *)
(***************************************************************************)
\* The artifact smartmontools before 7.3 prints in front of the JSON.
PendingDefect == [tok |-> "  Pending defect count:", doc |-> ZeroResult]
Junk == [tok |-> "junk", doc |-> ZeroResult]
JsonText(doc) == <<[tok |-> "json", doc |-> doc]>>

\* strings.TrimPrefix(s, "  Pending defect count:")
TrimPrefix(s) == IF Len(s) > 0 /\ s[1] = PendingDefect THEN Tail(s) ELSE s

\* gjson.Valid(data): the text is one JSON value.
Valid(data) == Len(data) = 1 /\ data[1].tok = "json"

parseJSON(data) == IF ~Valid(data) THEN EmptyObject ELSE data[1].doc

(***************************************************************************)
(* Admission                                                               *)
(***************************************************************************)
\* b & (1 << k) != 0 on a two's-complement integer.
BitSet(b, k) == (b \div (2 ^ k)) % 2 = 1

\* Mutant: only bit 0 is examined.
resultCodeIsOkBit0Only(SMARTCtlResult) ==
    IF SMARTCtlResult > 0 THEN ~BitSet(SMARTCtlResult, 0) ELSE TRUE

\* Mutant: every non-zero code fails, the warning bits included.
resultCodeIsOkZeroOnly(SMARTCtlResult) == SMARTCtlResult = 0

\* Mutant: the bits of every non-zero code are examined.
resultCodeIsOkAnySign(SMARTCtlResult) ==
    IF SMARTCtlResult # 0
    THEN ~BitSet(SMARTCtlResult, 0) /\ ~BitSet(SMARTCtlResult, 1)
    ELSE TRUE

resultCodeIsOk(SMARTCtlResult) ==
    IF SMARTCtlResult > 0
    THEN ~BitSet(SMARTCtlResult, 0) /\ ~BitSet(SMARTCtlResult, 1)
    ELSE TRUE

RECURSIVE NoErrorSeverity(_)
NoErrorSeverity(messages) ==
    IF messages = <<>> THEN TRUE
    ELSE IF Head(messages) = "error" THEN FALSE
    ELSE NoErrorSeverity(Tail(messages))

\* Mutant: only the first message is examined.
jsonIsOkFirstOnly(json) ==
    IF json.messages # <<>> /\ json.messages[1] # <<>>
    THEN Head(json.messages[1]) # "error"
    ELSE TRUE

jsonIsOk(json) ==
    IF json.messages # <<>> THEN NoErrorSeverity(json.messages[1]) ELSE TRUE

(***************************************************************************)
(* The cache                                                               *)
(***************************************************************************)
JSONCache(json, t) == [JSON |-> json, LastCollect |-> t]

\* jsonCache.Load(key): the entry, if any.
Found(key) == jsonCache[key] # <<>>
Value(key) == jsonCache[key][1]

\* jsonCache.Store(key, entry)
Store(key, entry) == jsonCache' = [jsonCache EXCEPT ![key] = <<entry>>]

\* Mutant: not before, instead of after.
AfterOrEqual(t, u) == t >= u

\* !cacheOk || time.Now().After(LastCollect.Add(*smartctlInterval))
After(t, u) == t > u
IsStale(found, lastCollect, interval, t) == ~found \/ After(t, lastCollect + interval)
Stale(device) ==
    IsStale(Found(device), IF Found(device) THEN Value(device).LastCollect ELSE ZeroTime,
            smartctlInterval, now)

(***************************************************************************)
(* State                                                                   *)
(*                                                                         *)
(* tasks[<<c, i>>]: the goroutine readSMARTctl launched by caller c for    *)
(* the i-th device of its list: its position pc, its locals start, err and *)
(* json.  calls[c]: caller c's call of refreshAllDevices: its position,    *)
(* the list, the loop index, the WaitGroup counter, and two history        *)
(* fields: the indexes it launched a goroutine for, and the devices whose  *)
(* entry was stored while the call ran.  A call that has returned ("done") *)
(* keeps its fields until the caller's next call.  The history field       *)
(* overtaken of a goroutine says that the current entry of its device was  *)
(* stored by a collection that started later than it did; the history      *)
(* field staler says that the goroutine's store replaced an entry stamped  *)
(* earlier whose document the tool had printed later than the goroutine's. *)
(***************************************************************************)
NoTask ==
    [pc |-> "none", dev |-> EmptyKey, start |-> ZeroTime, err |-> FALSE, json |-> ZeroResult,
     overtaken |-> FALSE, staler |-> FALSE]
IdleCall == [pc |-> "idle", devices |-> <<>>, i |-> 1, wg |-> 0, launched |-> {}, stored |-> {}]
Running(c) == calls[c].pc \in {"loop", "wait"}

\* func init(): the cache holds the key "" with a zero entry.
InitCache == [k \in Keys |-> IF k = EmptyKey THEN <<JSONCache(ZeroResult, ZeroTime)>> ELSE <<>>]

Init ==
    /\ now = StartTime
    /\ smartctlInterval \in 0..MaxInterval
    /\ smartctlFakeData \in BOOLEAN
    /\ jsonCache = InitCache
    /\ calls = [c \in Callers |-> IdleCall]
    /\ tasks = [s \in Slots |-> NoTask]
    /\ readRet = <<>>
    /\ input = <<>>
    /\ output = <<>>

(***************************************************************************)
(* The external tool and the fixture files                                 *)
(***************************************************************************)
\* The documents the tool prints at time t: exit status 0, a warning bit
\* (bit 2), an error bit (bit 1), and status 0 with an error message.
ToolDocuments(t) ==
    {Object(0, <<>>, t), Object(4, <<>>, t), Object(2, <<>>, t), Object(0, <<<<"error">>>>, t)}

\* What exec.Command(...).Output() returns at time t: the standard output
\* and whether err is set.  A launch failure has no output; a non-zero exit
\* is an err with the output kept.
ExecResults(t) ==
    {[out |-> <<>>, err |-> TRUE], [out |-> <<Junk>>, err |-> FALSE]}
    \cup {[out |-> JsonText(d), err |-> ExitStatus(d) # 0] : d \in ToolDocuments(t)}
    \cup {[out |-> <<PendingDefect>> \o JsonText(Object(0, <<>>, t)), err |-> FALSE]}

\* What os.ReadFile("debug/<name>.json") returns: the file's text, or an error.
FixtureReads ==
    {[text |-> <<>>, err |-> TRUE], [text |-> <<Junk>>, err |-> FALSE],
     [text |-> JsonText(Object(0, <<>>, ZeroTime)), err |-> FALSE]}

(***************************************************************************)
(* readSMARTctl, one goroutine per slot                                    *)
(***************************************************************************)
\* start := time.Now(), and the tool is launched.
TaskStart(s) ==
    /\ tasks[s].pc = "start"
    /\ tasks' = [tasks EXCEPT ![s].pc = "exec", ![s].start = now]
    /\ readRet' = <<>>
    /\ UNCHANGED <<now, smartctlInterval, smartctlFakeData, jsonCache, calls, input, output>>

\* Output() returns; the output is trimmed and parsed.
TaskExec(s) ==
    /\ tasks[s].pc = "exec"
    /\ \E r \in ExecResults(now) :
          tasks' = [tasks EXCEPT ![s].pc = "admit", ![s].err = r.err,
                                 ![s].json = parseJSON(TrimPrefix(r.out))]
    /\ readRet' = <<>>
    /\ UNCHANGED <<now, smartctlInterval, smartctlFakeData, jsonCache, calls, input, output>>

\* History: device was stored while these calls ran.
NoteStored(device) ==
    [c \in Callers |-> IF Running(c) THEN [calls[c] EXCEPT !.stored = @ \cup {device}]
                       ELSE calls[c]]

\* History: goroutine s stores; the goroutines of the same device that have
\* taken their start know whether s started later than they did.
NoteOvertaken(s) ==
    [q \in Slots |->
       IF q # s /\ tasks[q].dev = tasks[s].dev /\ tasks[q].pc \in {"exec", "admit"}
       THEN [tasks[q] EXCEPT !.overtaken = tasks[q].start < tasks[s].start]
       ELSE tasks[q]]

\* History: the store of goroutine s, at time t, replaces an entry stamped
\* earlier that holds a document the tool printed later than the one of s.
StalerWrite(s, t) ==
    /\ Found(tasks[s].dev)
    /\ Value(tasks[s].dev).LastCollect < t
    /\ tasks[s].json.local_time # <<>>
    /\ Value(tasks[s].dev).JSON.local_time # <<>>
    /\ tasks[s].json.local_time[1] < Value(tasks[s].dev).JSON.local_time[1]

\* rcOk && jsonOk
Admissible(json) == resultCodeIsOk(ExitStatus(json)) /\ jsonIsOk(json)

\* Mutant: the result is stored whatever rcOk and jsonOk say.
TaskAdmitAlways(s) ==
    /\ tasks[s].pc = "admit"
    /\ Store(tasks[s].dev, JSONCache(tasks[s].json, now))
    /\ calls' = NoteStored(tasks[s].dev)
    /\ tasks' = [NoteOvertaken(s) EXCEPT ![s].pc = "defer",
                                       ![s].staler = StalerWrite(s, now)]
    /\ readRet' = <<>>
    /\ UNCHANGED <<now, smartctlInterval, smartctlFakeData, input, output>>

\* Mutant: an entry stamped after the goroutine started is kept.
TaskAdmitIfNewer(s) ==
    /\ tasks[s].pc = "admit"
    /\ IF /\ Admissible(tasks[s].json)
          /\ ~(Found(tasks[s].dev) /\ Value(tasks[s].dev).LastCollect > tasks[s].start)
       THEN /\ Store(tasks[s].dev, JSONCache(tasks[s].json, now))
            /\ calls' = NoteStored(tasks[s].dev)
            /\ tasks' = [NoteOvertaken(s) EXCEPT ![s].pc = "defer",
                                       ![s].staler = StalerWrite(s, now)]
       ELSE /\ UNCHANGED <<jsonCache, calls>>
            /\ tasks' = [tasks EXCEPT ![s].pc = "defer"]
    /\ readRet' = <<>>
    /\ UNCHANGED <<now, smartctlInterval, smartctlFakeData, input, output>>

\* Mutant: the fields of an existing entry are written one by one, and the
\* goroutine is preempted after the first.
TaskAdmitTornWrite(s) ==
    /\ tasks[s].pc = "admit"
    /\ IF Admissible(tasks[s].json)
       THEN /\ Store(tasks[s].dev,
                     JSONCache(tasks[s].json,
                               IF Found(tasks[s].dev) THEN Value(tasks[s].dev).LastCollect
                               ELSE now))
            /\ calls' = NoteStored(tasks[s].dev)
            /\ tasks' = [NoteOvertaken(s) EXCEPT ![s].pc = "defer",
                                       ![s].staler = StalerWrite(s, now)]
       ELSE /\ UNCHANGED <<jsonCache, calls>>
            /\ tasks' = [tasks EXCEPT ![s].pc = "defer"]
    /\ readRet' = <<>>
    /\ UNCHANGED <<now, smartctlInterval, smartctlFakeData, input, output>>

\* if rcOk && jsonOk { jsonCache.Store(...) }
TaskAdmit(s) ==
    /\ tasks[s].pc = "admit"
    /\ IF Admissible(tasks[s].json)
       THEN /\ Store(tasks[s].dev, JSONCache(tasks[s].json, now))
            /\ calls' = NoteStored(tasks[s].dev)
            /\ tasks' = [NoteOvertaken(s) EXCEPT ![s].pc = "defer",
                                       ![s].staler = StalerWrite(s, now)]
       ELSE /\ UNCHANGED <<jsonCache, calls>>
            /\ tasks' = [tasks EXCEPT ![s].pc = "defer"]
    /\ readRet' = <<>>
    /\ UNCHANGED <<now, smartctlInterval, smartctlFakeData, input, output>>

\* Mutant: wg.Done() is called on the path that stores only.
TaskDoneLeak(s) ==
    /\ tasks[s].pc = "defer"
    /\ calls' = [calls EXCEPT ![s[1]].wg = IF Admissible(tasks[s].json) THEN @ - 1 ELSE @]
    /\ tasks' = [tasks EXCEPT ![s] = NoTask]
    /\ readRet' = <<>>
    /\ UNCHANGED <<now, smartctlInterval, smartctlFakeData, jsonCache, input, output>>

\* Mutant: the path that logs the error of Output() calls wg.Done() too.
TaskDoneTwiceOnErr(s) ==
    /\ tasks[s].pc = "defer"
    /\ calls' = [calls EXCEPT ![s[1]].wg = IF tasks[s].err THEN @ - 2 ELSE @ - 1]
    /\ tasks' = [tasks EXCEPT ![s] = NoTask]
    /\ readRet' = <<>>
    /\ UNCHANGED <<now, smartctlInterval, smartctlFakeData, jsonCache, input, output>>

\* The deferred wg.Done() of the caller's WaitGroup; the goroutine ends.
TaskDone(s) ==
    /\ tasks[s].pc = "defer"
    /\ calls' = [calls EXCEPT ![s[1]].wg = @ - 1]
    /\ tasks' = [tasks EXCEPT ![s] = NoTask]
    /\ readRet' = <<>>
    /\ UNCHANGED <<now, smartctlInterval, smartctlFakeData, jsonCache, input, output>>

(***************************************************************************)
(* refreshAllDevices                                                       *)
(***************************************************************************)
\* Mutant: the flag smartctlFakeData is not looked at.
RefreshBeginIgnoreFake(c, devices) ==
    /\ ~Running(c)
    /\ calls' = [calls EXCEPT ![c] =
                   [IdleCall EXCEPT !.pc = IF devices = <<>> THEN "wait" ELSE "loop",
                                    !.devices = devices]]
    /\ readRet' = <<>>
    /\ UNCHANGED <<now, smartctlInterval, smartctlFakeData, jsonCache, tasks, input, output>>

\* The call is entered; in fake mode it returns at once.
RefreshBegin(c, devices) ==
    /\ ~Running(c)
    /\ calls' = [calls EXCEPT ![c] =
                   IF smartctlFakeData
                   THEN [IdleCall EXCEPT !.pc = "done"]
                   ELSE [IdleCall EXCEPT !.pc = IF devices = <<>> THEN "wait" ELSE "loop",
                                         !.devices = devices]]
    /\ readRet' = <<>>
    /\ UNCHANGED <<now, smartctlInterval, smartctlFakeData, jsonCache, tasks, input, output>>

\* Mutant: a goroutine is launched for every device, stale or not.
RefreshExamineAlways(c) ==
    /\ calls[c].pc = "loop"
    /\ LET i == calls[c].i
           device == calls[c].devices[i]
           pc == IF i = Len(calls[c].devices) THEN "wait" ELSE "loop"
       IN /\ calls' = [calls EXCEPT ![c].wg = @ + 1, ![c].i = i + 1, ![c].pc = pc,
                                    ![c].launched = @ \cup {i}]
          /\ tasks' = [tasks EXCEPT ![<<c, i>>] =
                         [NoTask EXCEPT !.pc = "start", !.dev = device]]
    /\ readRet' = <<>>
    /\ UNCHANGED <<now, smartctlInterval, smartctlFakeData, jsonCache, input, output>>

\* One iteration of the loop over the devices.
RefreshExamine(c) ==
    /\ calls[c].pc = "loop"
    /\ LET i == calls[c].i
           device == calls[c].devices[i]
           pc == IF i = Len(calls[c].devices) THEN "wait" ELSE "loop"
       IN IF Stale(device)
          THEN /\ calls' = [calls EXCEPT ![c].wg = @ + 1, ![c].i = i + 1, ![c].pc = pc,
                                         ![c].launched = @ \cup {i}]
               /\ tasks' = [tasks EXCEPT ![<<c, i>>] =
                              [NoTask EXCEPT !.pc = "start", !.dev = device]]
          ELSE /\ calls' = [calls EXCEPT ![c].i = i + 1, ![c].pc = pc]
               /\ UNCHANGED tasks
    /\ readRet' = <<>>
    /\ UNCHANGED <<now, smartctlInterval, smartctlFakeData, jsonCache, input, output>>

\* Mutant: the call returns without waiting for the counter.
RefreshWaitNoJoin(c) ==
    /\ calls[c].pc = "wait"
    /\ calls' = [calls EXCEPT ![c].pc = "done"]
    /\ readRet' = <<>>
    /\ UNCHANGED <<now, smartctlInterval, smartctlFakeData, jsonCache, tasks, input, output>>

\* wg.Wait() returns once the counter is zero, and so does the call.
RefreshWait(c) ==
    /\ calls[c].pc = "wait"
    /\ calls[c].wg = 0
    /\ calls' = [calls EXCEPT ![c].pc = "done"]
    /\ readRet' = <<>>
    /\ UNCHANGED <<now, smartctlInterval, smartctlFakeData, jsonCache, tasks, input, output>>

(***************************************************************************)
(* readData                                                                *)
(***************************************************************************)
readFakeSMARTctl(file) == IF file.err THEN parseJSON(JsonText(EmptyObject)) ELSE parseJSON(file.text)

\* What readData(device) returns from the cache.
CacheRead(device) == IF ~Found(device) THEN ZeroResult ELSE Value(device).JSON

\* Mutant: a lookup that misses leaves a zero entry behind (LoadOrStore).
readDataLoadOrStore(device) ==
    /\ IF smartctlFakeData
       THEN /\ \E file \in FixtureReads :
                  readRet' = <<[device |-> device, json |-> readFakeSMARTctl(file)]>>
            /\ UNCHANGED jsonCache
       ELSE /\ readRet' = <<[device |-> device, json |-> CacheRead(device)]>>
            /\ IF Found(device) THEN UNCHANGED jsonCache
               ELSE Store(device, JSONCache(ZeroResult, ZeroTime))
    /\ UNCHANGED <<now, smartctlInterval, smartctlFakeData, calls, tasks, input, output>>

readData(device) ==
    /\ IF smartctlFakeData
       THEN \E file \in FixtureReads :
               readRet' = <<[device |-> device, json |-> readFakeSMARTctl(file)]>>
       ELSE readRet' = <<[device |-> device, json |-> CacheRead(device)]>>
    /\ UNCHANGED <<now, smartctlInterval, smartctlFakeData, jsonCache, calls, tasks, input, output>>

(***************************************************************************)
(* The clock                                                               *)
(***************************************************************************)
Tick ==
    /\ now < MaxTime
    /\ now' = now + 1
    /\ readRet' = <<>>
    /\ UNCHANGED <<smartctlInterval, smartctlFakeData, jsonCache, calls, tasks, input, output>>

(***************************************************************************)
(* Spec: the exporter with the calls of refreshAllDevices following one    *)
(* another (one caller), the collections of a call running concurrently,   *)
(* and readData called at any moment.                                      *)
(***************************************************************************)
Next ==
    \/ \E s \in Slots : TaskStart(s)
    \/ \E s \in Slots : TaskExec(s)
    \/ \E s \in Slots : TaskAdmit(s)
    \/ \E s \in Slots : TaskDone(s)
    \/ \E devices \in DeviceLists : RefreshBegin(Scheduler, devices)
    \/ \E c \in Callers : RefreshExamine(c)
    \/ \E c \in Callers : RefreshWait(c)
    \/ \E device \in Devices : readData(device)
    \/ Tick

Spec == Init /\ [][Next]_vars

(***************************************************************************)
(* SpecLive: Spec without the reader, with the scheduling the Go runtime   *)
(* gives: every goroutine that can take a step eventually takes it, and    *)
(* every invocation of the tool returns.  The clock and the caller's next  *)
(* call are under no obligation.  The cache is in use (no fake mode) and   *)
(* the interval is zero: an entry is stale as soon as the clock advances.  *)
(***************************************************************************)
InitLive == Init /\ ~smartctlFakeData /\ smartctlInterval = 0

NextLive ==
    \/ \E s \in Slots : TaskStart(s)
    \/ \E s \in Slots : TaskExec(s)
    \/ \E s \in Slots : TaskAdmit(s)
    \/ \E s \in Slots : TaskDone(s)
    \/ \E devices \in DeviceLists : RefreshBegin(Scheduler, devices)
    \/ \E c \in Callers : RefreshExamine(c)
    \/ \E c \in Callers : RefreshWait(c)
    \/ Tick

Fairness ==
    /\ \A s \in Slots : WF_vars(TaskStart(s)) /\ WF_vars(TaskExec(s))
    /\ \A s \in Slots : WF_vars(TaskAdmit(s)) /\ WF_vars(TaskDone(s))
    /\ \A c \in Callers : WF_vars(RefreshExamine(c)) /\ WF_vars(RefreshWait(c))

SpecLive == InitLive /\ [][NextLive]_vars /\ Fairness

(***************************************************************************)
(* SpecOverlap: the exporter with two callers of refreshAllDevices whose   *)
(* calls may overlap in time, each for the device "sda", and readData      *)
(* called at any moment.  The cache is in use (no fake mode) and the       *)
(* interval is zero.                                                       *)
(***************************************************************************)
OverlapLists == {<<"sda">>}

InitOverlap == Init /\ ~smartctlFakeData /\ smartctlInterval = 0

NextOverlap ==
    \/ \E s \in Slots : TaskStart(s)
    \/ \E s \in Slots : TaskExec(s)
    \/ \E s \in Slots : TaskAdmit(s)
    \/ \E s \in Slots : TaskDone(s)
    \/ \E c \in Callers, devices \in OverlapLists : RefreshBegin(c, devices)
    \/ \E c \in Callers : RefreshExamine(c)
    \/ \E c \in Callers : RefreshWait(c)
    \/ \E device \in Devices : readData(device)
    \/ Tick

SpecOverlap == InitOverlap /\ [][NextOverlap]_vars

(***************************************************************************)
(* SpecAdmit: one collection of "sda" whose output has just been parsed,   *)
(* for every status code of the tool (0..MaxCode) and every message list;  *)
(* the cache holds no entry for "sda" or an older one.                     *)
(***************************************************************************)
Severities == {"error", "warning", "information"}
RECURSIVE SeqsUpTo(_, _)
SeqsUpTo(S, n) ==
    IF n = 0 THEN {<<>>}
    ELSE LET shorter == SeqsUpTo(S, n - 1)
         IN shorter \cup {Append(m, x) : m \in shorter, x \in S}
\* smartctl.messages: missing, or a list of messages.
MessageLists == {<<>>} \cup {<<m>> : m \in SeqsUpTo(Severities, MaxMsgs)}

OlderEntry == JSONCache(Object(0, <<>>, StartTime), StartTime)

InitAdmit ==
    /\ now = StartTime + 1
    /\ smartctlInterval = 0
    /\ smartctlFakeData = FALSE
    /\ \E old \in {<<>>, <<OlderEntry>>} : jsonCache = [InitCache EXCEPT !["sda"] = old]
    /\ calls = [c \in Callers |->
                  IF c = Scheduler
                  THEN [IdleCall EXCEPT !.pc = "wait", !.devices = <<"sda">>, !.i = 2,
                                        !.wg = 1, !.launched = {1}]
                  ELSE IdleCall]
    /\ \E code \in 0..MaxCode, msgs \in MessageLists :
          tasks = [s \in Slots |->
                     IF s = <<Scheduler, 1>>
                     THEN [pc |-> "admit", dev |-> "sda", start |-> now, err |-> code # 0,
                           json |-> Object(code, msgs, now), overtaken |-> FALSE,
                           staler |-> FALSE]
                     ELSE NoTask]
    /\ readRet = <<>>
    /\ input = <<>>
    /\ output = <<>>

NextAdmit ==
    \/ \E s \in Slots : TaskAdmit(s)
    \/ \E s \in Slots : TaskDone(s)
    \/ \E c \in Callers : RefreshWait(c)
    \/ Tick

SpecAdmit == InitAdmit /\ [][NextAdmit]_vars

(***************************************************************************)
(* readSMARTctlDevices                                                     *)
(***************************************************************************)
\* What exec.Command(..., "--scan").Output() returns: the standard output and
\* err, which is nil (the tool exited with status 0), an *exec.ExitError
\* with the exit code (-1 when a signal ended the tool), or another error
\* (the tool could not be launched).
ScanResult(out, err, code) == [out |-> out, err |-> err, code |-> code]
ScanResults ==
    {ScanResult(out, "nil", 0) : out \in {<<>>, <<Junk>>, JsonText(Object(0, <<>>, StartTime))}}
    \cup {ScanResult(<<>>, "ExitError", code) : code \in (1..MaxCode) \cup {-1}}
    \cup {ScanResult(JsonText(Object(code, <<>>, StartTime)), "ExitError", code) :
             code \in 1..MaxCode}
    \cup {ScanResult(<<>>, "other", 0)}

\* Mutant: exit code 2 is not tolerated.
readSMARTctlDevicesStrict(scan) ==
    IF scan.err = "nil" THEN parseJSON(scan.out) ELSE ZeroResult

readSMARTctlDevices(scan) ==
    IF scan.err = "ExitError"
    THEN IF scan.code # 2 THEN ZeroResult ELSE parseJSON(scan.out)
    ELSE IF scan.err # "nil" THEN ZeroResult
    ELSE parseJSON(scan.out)

(***************************************************************************)
(* SpecPure: the pure functions applied to arguments drawn from bounded    *)
(* sets: resultCodeIsOk on the int64 codes -MaxNegCode..MaxCode, the       *)
(* staleness test of refreshAllDevices, and readSMARTctlDevices on the     *)
(* outcomes of the scan.                                                   *)
(***************************************************************************)
PureInput(fn, code, found, lastCollect, interval, t) ==
    [fn |-> fn, code |-> code, found |-> found, lastCollect |-> lastCollect,
     interval |-> interval, t |-> t]

PureInputs ==
    {PureInput("resultCodeIsOk", code, FALSE, 0, 0, 0) : code \in (0 - MaxNegCode)..MaxCode}
    \cup {PureInput("IsStale", 0, FALSE, ZeroTime, interval, t) :
             interval \in 0..MaxInterval, t \in StartTime..MaxTime}
    \cup UNION {{PureInput("IsStale", 0, TRUE, lastCollect, interval, t) :
                    interval \in 0..MaxInterval, t \in lastCollect..(MaxTime + MaxInterval + 1)} :
                lastCollect \in StartTime..MaxTime}

ScanInputs == {[fn |-> "readSMARTctlDevices", scan |-> scan] : scan \in ScanResults}

InitPure ==
    /\ now = StartTime
    /\ smartctlInterval = 0
    /\ smartctlFakeData = FALSE
    /\ jsonCache = InitCache
    /\ calls = [c \in Callers |-> IdleCall]
    /\ tasks = [s \in Slots |-> NoTask]
    /\ readRet = <<>>
    /\ input \in {<<i>> : i \in PureInputs \cup ScanInputs}
    /\ output = <<>>

ApplyResultCodeIsOk ==
    /\ output = <<>>
    /\ input[1].fn = "resultCodeIsOk"
    /\ output' = <<resultCodeIsOk(input[1].code)>>
    /\ UNCHANGED <<now, smartctlInterval, smartctlFakeData, jsonCache, calls, tasks, readRet, input>>

ApplyIsStale ==
    /\ output = <<>>
    /\ input[1].fn = "IsStale"
    /\ output' = <<IsStale(input[1].found, input[1].lastCollect, input[1].interval, input[1].t)>>
    /\ UNCHANGED <<now, smartctlInterval, smartctlFakeData, jsonCache, calls, tasks, readRet, input>>

ApplyReadSMARTctlDevices ==
    /\ output = <<>>
    /\ input[1].fn = "readSMARTctlDevices"
    /\ output' = <<readSMARTctlDevices(input[1].scan)>>
    /\ UNCHANGED <<now, smartctlInterval, smartctlFakeData, jsonCache, calls, tasks, readRet, input>>

NextPure == ApplyResultCodeIsOk \/ ApplyIsStale \/ ApplyReadSMARTctlDevices

SpecPure == InitPure /\ [][NextPure]_vars

(***************************************************************************)
(* The claims                                                              *)
(***************************************************************************)
\* The words of the claims, stated without the functions of the code.
Bit0Or1Set(code) == code % 2 = 1 \/ (code \div 2) % 2 = 1
HasErrorMessage(json) ==
    json.messages # <<>> /\ \E i \in DOMAIN json.messages[1] : json.messages[1][i] = "error"
ClaimInadmissible(json) == Bit0Or1Set(ExitStatus(json)) \/ HasErrorMessage(json)
\* The step of goroutine s that decides the store.
AdmitStep(s) == tasks[s].pc = "admit" /\ tasks'[s].pc = "defer"
AllTasksEnded == \A s \in Slots : tasks[s] = NoTask

\* C1: a collection whose result is inadmissible (status bit 0 or bit 1 set,
\* or a message of severity "error") leaves the cache entry of its device as
\* it was, data and LastCollect; a device without an entry still has none.
C1_InadmissibleKeepsEntry ==
    [][\A s \in Slots :
          AdmitStep(s) /\ ClaimInadmissible(tasks[s].json)
             => jsonCache'[tasks[s].dev] = jsonCache[tasks[s].dev]]_vars

\* An inadmissible collection has decided, and the entry an earlier collection
\* stored for its device is still the cached one.
C1_Witness ==
    \E s \in Slots :
       /\ tasks[s].pc = "defer"
       /\ ClaimInadmissible(tasks[s].json)
       /\ Found(tasks[s].dev)
       /\ Value(tasks[s].dev).LastCollect < tasks[s].json.local_time[1]

\* C2: when the tool cannot be launched (an error and no output) nothing is
\* stored: an entry of the device is unchanged, an absent entry stays absent.
C2_LaunchFailureStoresNothing ==
    [][\A s \in Slots :
          AdmitStep(s) /\ tasks[s].err /\ tasks[s].json = EmptyObject
             => jsonCache'[tasks[s].dev] = jsonCache[tasks[s].dev]]_vars

\* C3: in non-fake mode, once readData returns collected data for a device
\* that is not empty, it never later returns an empty document for it.
\* readData may be called in every state and returns CacheRead(device).
C3_NonEmptyStaysNonEmpty ==
    [][~smartctlFakeData =>
          \A d \in Devices :
             ~IsEmptyDocument(CacheRead(d)) => ~IsEmptyDocument(CacheRead(d))']_vars

\* C4: a call of refreshAllDevices has not returned while a goroutine it
\* launched is in flight, its store included: every goroutine that has not
\* ended belongs to a call that is in its loop or blocked in wg.Wait().
C4_ReturnsAfterAllTasks ==
    \A s \in Slots : tasks[s].pc # "none" => Running(s[1])

\* A call that launched two collections has returned, one of them stored.
C4_Witness ==
    /\ calls[Scheduler].pc = "done"
    /\ calls[Scheduler].launched = {1, 2}
    /\ calls[Scheduler].stored # {}
    /\ AllTasksEnded

\* C5: for every status code from 0 up, resultCodeIsOk is false if bit 0 or
\* bit 1 is set and true otherwise: code 0 and the codes with only bits 2 to 7
\* set are admissible.
C5_ResultCodeBits ==
    (output # <<>> /\ input[1].fn = "resultCodeIsOk" /\ input[1].code >= 0)
       => /\ output[1] = ~Bit0Or1Set(input[1].code)
          /\ input[1].code % 4 = 0 => output[1]

\* resultCodeIsOk has accepted 252: all the warning bits, no error bit.
C5_Witness ==
    input[1].fn = "resultCodeIsOk" /\ input[1].code = 252 /\ output = <<TRUE>>

\* C6: for every status code, 0 included, a collection with a message of
\* severity "error" is not stored; one without a message list, or without
\* such a message, is stored exactly when bits 0 and 1 of the code are clear.
C6_ErrorMessageBlocks ==
    [][\A s \in Slots :
          AdmitStep(s) =>
             IF HasErrorMessage(tasks[s].json)
             THEN jsonCache' = jsonCache
             ELSE IF Bit0Or1Set(ExitStatus(tasks[s].json))
                  THEN jsonCache' = jsonCache
                  ELSE jsonCache'[tasks[s].dev] = <<JSONCache(tasks[s].json, now)>>]_vars

\* A collection with status 0 and an error message after a warning has
\* decided, and the older entry is still cached.
C6_Witness ==
    \E s \in Slots :
       /\ tasks[s].pc = "defer"
       /\ ExitStatus(tasks[s].json) = 0
       /\ tasks[s].json.messages = <<<<"warning", "error">>>>
       /\ jsonCache[tasks[s].dev] = <<OlderEntry>>

\* C7: an admissible collection (bits 0 and 1 clear, no error message)
\* replaces the entry of its device by the collected document with a
\* LastCollect that is the time of the store, not earlier than the start of
\* the collection; the warning bits 2 to 7 do not matter.
C7_AdmissibleIsStored ==
    [][\A s \in Slots :
          AdmitStep(s) /\ ~ClaimInadmissible(tasks[s].json)
             => /\ jsonCache'[tasks[s].dev] # <<>>
                /\ jsonCache'[tasks[s].dev][1].JSON = tasks[s].json
                /\ jsonCache'[tasks[s].dev][1].LastCollect >= tasks[s].start
                /\ jsonCache'[tasks[s].dev][1].LastCollect = now']_vars

\* The collection with status 0b00000100 replaced the older entry, stamped
\* later than the collection started.
C7_Witness ==
    \E s \in Slots :
       /\ tasks[s].pc = "defer"
       /\ ExitStatus(tasks[s].json) = 4
       /\ Found(tasks[s].dev)
       /\ Value(tasks[s].dev).JSON = tasks[s].json
       /\ Value(tasks[s].dev).LastCollect > tasks[s].json.local_time[1]

\* C8: in one call of refreshAllDevices a goroutine is launched for a device
\* if and only if the device is stale when it is examined; a fresh device
\* gets none, and when the call returns the entry of every device it launched
\* no goroutine for has not been stored since the call began.
C8_LaunchIffStale ==
    [][\A c \in Callers :
          /\ (calls[c].pc = "loop" /\ calls'[c].i = calls[c].i + 1) =>
                LET i == calls[c].i
                    device == calls[c].devices[i]
                IN IF Stale(device)
                   THEN /\ tasks'[<<c, i>>].pc = "start"
                        /\ tasks'[<<c, i>>].dev = device
                        /\ calls'[c].wg = calls[c].wg + 1
                        /\ calls'[c].launched = calls[c].launched \cup {i}
                   ELSE /\ tasks' = tasks
                        /\ calls'[c].wg = calls[c].wg
                        /\ calls'[c].launched = calls[c].launched
                        /\ jsonCache' = jsonCache
          /\ (calls[c].pc = "wait" /\ calls'[c].pc = "done") =>
                \A d \in Devices :
                   (\A i \in calls[c].launched : calls[c].devices[i] # d)
                      => d \notin calls[c].stored]_vars

\* The call for "sda" (fresh) and "sdb" (stale) has returned: it launched
\* one goroutine, for "sdb", and the entry of "sda" was not stored.
C8_Witness ==
    /\ calls[Scheduler].pc = "done"
    /\ calls[Scheduler].devices = <<"sda", "sdb">>
    /\ calls[Scheduler].launched = {2}
    /\ calls[Scheduler].stored = {"sdb"}
    /\ Found("sda")

\* C9: the staleness test is true without an entry, and with an entry exactly
\* when now is strictly later than LastCollect + interval: false right after
\* a store stamped now, false when now = LastCollect + interval.
C9_StalenessTest ==
    (output # <<>> /\ input[1].fn = "IsStale")
       => LET in == input[1]
          IN /\ ~in.found => output[1]
             /\ in.found => (output[1] <=> in.t - in.lastCollect > in.interval)
             /\ (in.found /\ in.t = in.lastCollect) => ~output[1]
             /\ (in.found /\ in.t = in.lastCollect + in.interval) => ~output[1]
             /\ (in.found /\ in.t = in.lastCollect + in.interval + 1) => output[1]

\* The test said "not stale" at now = LastCollect + interval, the interval
\* not zero.
C9_Witness ==
    /\ input[1].fn = "IsStale"
    /\ input[1].found
    /\ input[1].interval > 0
    /\ input[1].t = input[1].lastCollect + input[1].interval
    /\ output = <<FALSE>>

\* C10: when every invocation of the tool returns, a call of
\* refreshAllDevices that has been entered eventually returns, whatever the
\* outcomes of its collections and the order they end in.
C10_RefreshReturns ==
    \A c \in Callers : Running(c) ~> calls[c].pc = "done"

\* A call has returned whose two collections ended differently: the one of
\* "sda" stored, the one of "sdb" was inadmissible and left no entry.
C10_Witness ==
    /\ calls[Scheduler].pc = "done"
    /\ calls[Scheduler].devices = <<"sda", "sdb">>
    /\ calls[Scheduler].launched = {1, 2}
    /\ calls[Scheduler].stored = {"sda"}
    /\ ~Found("sdb")

\* The step of goroutine s that stores its result.
StoreStep(s) == AdmitStep(s) /\ Admissible(tasks[s].json)

\* C11: with the calls of refreshAllDevices following one another, the
\* LastCollect of a device's entry never decreases, and no entry is replaced
\* by the result of a collection that started before the collection that
\* stored the entry.
C11_SerializedFreshness ==
    [][/\ \A d \in Devices :
             Found(d) => /\ jsonCache'[d] # <<>>
                         /\ jsonCache'[d][1].LastCollect >= Value(d).LastCollect
       /\ \A s \in Slots :
             StoreStep(s) /\ Found(tasks[s].dev) => ~tasks[s].overtaken]_vars

\* C12: during one call of refreshAllDevices, whatever device list it was
\* given, no two of its goroutines that have not ended collect the same
\* device: a device has a single writer in the refresh cycle.
C12_OneTaskPerDevice ==
    \A c \in Callers : \A s, q \in Slots :
       (s[1] = c /\ q[1] = c /\ s # q /\ tasks[s].pc # "none" /\ tasks[q].pc # "none")
          => tasks[s].dev # tasks[q].dev

\* C13: in fake mode, whatever the device lists given to refreshAllDevices,
\* no goroutine is ever launched, every call has returned at once and the
\* cache is as init() left it; what readData returned is the parsed fixture
\* of the device, or "{}" when the fixture cannot be read or parsed, never
\* what the cache has for the device (no entry: the zero Result).
C13_FakeMode ==
    smartctlFakeData =>
       /\ \A s \in Slots : tasks[s] = NoTask
       /\ \A c \in Callers : ~Running(c) /\ calls[c].launched = {} /\ calls[c].wg = 0
       /\ jsonCache = InitCache
       /\ readRet # <<>> =>
             /\ readRet[1].json \in {EmptyObject, Object(0, <<>>, ZeroTime)}
             /\ readRet[1].json # CacheRead(readRet[1].device)

\* In fake mode a call of refreshAllDevices has returned and readData then
\* returned the fixture of "sda".
C13_Witness ==
    /\ smartctlFakeData
    /\ calls[Scheduler].pc = "done"
    /\ ~Found("sda")
    /\ readRet = <<[device |-> "sda", json |-> Object(0, <<>>, ZeroTime)]>>

\* C14: readData does not modify the cache: the step that returns leaves
\* every entry as it was, and outside fake mode what it returns is the data
\* of the device's entry, or an empty document when the device has none.
\* The cache is written by the admit step of a readSMARTctl goroutine only,
\* and that step writes the entry of the goroutine's device only.
C14_ReadDataReadsOnly ==
    [][/\ readRet' # <<>> =>
             /\ jsonCache' = jsonCache
             /\ ~smartctlFakeData =>
                   LET device == readRet'[1].device
                   IN IF jsonCache[device] # <<>>
                      THEN readRet'[1].json = jsonCache[device][1].JSON
                      ELSE IsEmptyDocument(readRet'[1].json)
       /\ jsonCache' # jsonCache =>
             \E s \in Slots :
                /\ AdmitStep(s)
                /\ \A k \in Keys : k # tasks[s].dev => jsonCache'[k] = jsonCache[k]]_vars

\* readData has returned the document of the entry of "sda" while a later
\* collection of "sda", about to store another document, is in flight; "sdb"
\* has no entry.
C14_Witness ==
    /\ ~smartctlFakeData
    /\ readRet # <<>>
    /\ readRet[1].device = "sda"
    /\ Found("sda")
    /\ readRet[1].json = Value("sda").JSON
    /\ ~IsEmptyDocument(readRet[1].json)
    /\ ~Found("sdb")
    /\ \E s \in Slots :
          /\ tasks[s].pc = "admit"
          /\ tasks[s].dev = "sda"
          /\ Admissible(tasks[s].json)
          /\ tasks[s].json # Value("sda").JSON

\* C15: readSMARTctlDevices returns the parsed output of the scan (the
\* document printed, "{}" when the output is not JSON) when the scan exits
\* with status 0 or with status 2, and the empty result when it exits with
\* another status or cannot be launched; it returns for every outcome.
C15_ScanTolerance ==
    (input # <<>> /\ input[1].fn = "readSMARTctlDevices") =>
       LET scan == input[1].scan
           exited == scan.err \in {"nil", "ExitError"}
           status == IF scan.err = "nil" THEN 0 ELSE scan.code
           printed == IF Len(scan.out) = 1 /\ scan.out[1].tok = "json"
                      THEN scan.out[1].doc ELSE EmptyObject
       IN /\ ENABLED ApplyReadSMARTctlDevices \/ output # <<>>
          /\ output # <<>> =>
                IF exited /\ status \in {0, 2}
                THEN output[1] = printed
                ELSE output[1] = ZeroResult

\* The scan exited with status 2 and printed a document: that document is
\* returned.
C15_Witness ==
    /\ input # <<>>
    /\ input[1].fn = "readSMARTctlDevices"
    /\ input[1].scan.err = "ExitError"
    /\ input[1].scan.code = 2
    /\ output = <<Object(2, <<>>, StartTime)>>

\* C16: with calls of refreshAllDevices that overlap, a call that finds a
\* device stale launches a collection for it even while a collection of the
\* other call for the same device is in flight, and every admissible
\* collection stores over whatever entry the device has: the last store wins.
C16_LastStoreWins ==
    [][/\ \A c \in Callers :
             (calls[c].pc = "loop" /\ calls'[c].i = calls[c].i + 1
                /\ Stale(calls[c].devices[calls[c].i]))
                => /\ tasks'[<<c, calls[c].i>>].pc = "start"
                   /\ tasks'[<<c, calls[c].i>>].dev = calls[c].devices[calls[c].i]
       /\ \A s \in Slots :
             (AdmitStep(s) /\ ~ClaimInadmissible(tasks[s].json))
                => jsonCache'[tasks[s].dev] = <<JSONCache(tasks[s].json, now)>>]_vars

\* Two calls overlap, each with a collection of "sda".  The entry of "sda"
\* holds the document the tool printed first, stored by the collection of
\* one call over the entry, stamped earlier, that the collection of the other
\* call had stored with the document printed later.
C16_Witness ==
    \E s, q \in Slots :
       /\ s[1] # q[1]
       /\ Running(s[1]) /\ Running(q[1])
       /\ tasks[s].pc = "defer" /\ tasks[q].pc = "defer"
       /\ tasks[s].dev = tasks[q].dev
       /\ tasks[s].staler
       /\ ~ClaimInadmissible(tasks[q].json)
       /\ tasks[q].json.local_time # <<>>
       /\ tasks[s].json.local_time[1] < tasks[q].json.local_time[1]
       /\ Found(tasks[s].dev)
       /\ Value(tasks[s].dev).JSON = tasks[s].json
       /\ Value(tasks[s].dev).LastCollect > tasks[q].json.local_time[1]

\* C17: under every interleaving of the collections of overlapping calls and
\* of reads, a device has at most one entry; an entry changes only by the
\* store of one admissible collection, which writes the collection's document
\* and the time of the store together; no entry holds a document with a
\* LastCollect earlier than the time the tool printed the document; and what
\* a reader gets is the document of the entry the device has at that moment.
C17_WholeEntries ==
    [][/\ \A k \in Keys : Len(jsonCache'[k]) <= 1
       /\ \A d \in Devices :
             jsonCache'[d] # jsonCache[d] =>
                \E s \in Slots :
                   /\ AdmitStep(s)
                   /\ tasks[s].dev = d
                   /\ ~ClaimInadmissible(tasks[s].json)
                   /\ jsonCache'[d] = <<[JSON |-> tasks[s].json, LastCollect |-> now]>>
       /\ \A d \in Devices :
             jsonCache'[d] # <<>> =>
                /\ ~ClaimInadmissible(jsonCache'[d][1].JSON)
                /\ jsonCache'[d][1].JSON.local_time # <<>> =>
                      jsonCache'[d][1].JSON.local_time[1] <= jsonCache'[d][1].LastCollect
       /\ \A d \in Devices :
             (readRet' # <<>> /\ readRet'[1].device = d /\ jsonCache[d] # <<>>)
                => readRet'[1].json = jsonCache[d][1].JSON]_vars

\* A reader got the document of the entry of "sda" right after the
\* collections of two overlapping calls stored different documents for it,
\* one over the other.
C17_Witness ==
    /\ readRet # <<>>
    /\ readRet[1].device = "sda"
    /\ Found("sda")
    /\ readRet[1].json = Value("sda").JSON
    /\ \E s, q \in Slots :
          /\ s[1] # q[1]
          /\ tasks[s].pc = "defer" /\ tasks[q].pc = "defer"
          /\ tasks[s].dev = "sda" /\ tasks[q].dev = "sda"
          /\ ~ClaimInadmissible(tasks[s].json) /\ ~ClaimInadmissible(tasks[q].json)
          /\ tasks[s].json # tasks[q].json
          /\ Value("sda") = JSONCache(tasks[s].json, now)

\* The goroutines of caller c's call that have not ended.
InFlight(c) == {s \in Slots : s[1] = c /\ tasks[s].pc # "none"}

\* C18: the WaitGroup counter of a call is never negative and always equals
\* the number of goroutines the call launched that have not ended, so it is
\* zero exactly when all of them have ended: it is incremented once with each
\* launch, before the goroutine runs, and decremented once when a goroutine
\* ends, whether the tool could not be launched, the result was inadmissible
\* or it was stored.
C18_WaitGroupBalanced ==
    \A c \in Callers :
       /\ calls[c].wg >= 0
       /\ calls[c].wg = Cardinality(InFlight(c))
       /\ calls[c].wg <= Cardinality(calls[c].launched)
       /\ \A s \in InFlight(c) : s[2] \in calls[c].launched
       /\ calls[c].wg = 0 <=> \A s \in Slots : s[1] = c => tasks[s] = NoTask

\* A call launched two goroutines: one has ended, the other, whose tool could
\* not be launched, is about to call wg.Done(), and the counter is 1.
C18_Witness ==
    \E s \in Slots :
       /\ calls[s[1]].pc = "wait"
       /\ calls[s[1]].launched = {1, 2}
       /\ calls[s[1]].wg = 1
       /\ InFlight(s[1]) = {s}
       /\ tasks[s].pc = "defer"
       /\ tasks[s].err
       /\ tasks[s].json = EmptyObject

\* C19: resultCodeIsOk returns true for every code that is zero or negative,
\* whatever its bits: also for the negative codes whose two's-complement
\* representation has bit 0 or bit 1 set, such as -1.
C19_NonPositiveCodes ==
    (output # <<>> /\ input[1].fn = "resultCodeIsOk" /\ input[1].code <= 0)
       => output[1] = TRUE

\* resultCodeIsOk has accepted -1, a code with bit 0 and bit 1 set.
C19_Witness ==
    /\ input # <<>>
    /\ input[1].fn = "resultCodeIsOk"
    /\ input[1].code = -1
    /\ BitSet(input[1].code, 0) /\ BitSet(input[1].code, 1)
    /\ output = <<TRUE>>
====
